---- MODULE Spec2Model ----
(***************************************************************************)
(* Model of the producer -> processor -> consumer HTTP pipeline.           *)
(*                                                                         *)
(* The consumer (src/consumer/consumer.cpp) is modelled in full: startup   *)
(* (loadConfig, thread creation, listen), the background poller thread,    *)
(* and the /consume and /health handlers, against an upstream that may     *)
(* answer anything, refuse the connection, or never answer.  The processor *)
(* and producer handlers are modelled as operators and composed in a       *)
(* second specification (ChainSpec).                                       *)
(*                                                                         *)
(* Text is modelled as text: environment values are sequences of           *)
(* characters read by Stoi, HTTP bodies are sequences of JSON tokens read  *)
(* by Parse and written by Dump.                                           *)
(***************************************************************************)
EXTENDS Integers, Sequences, FiniteSets, TLC

(***************************************************************************)
(* Bounds of the model.                                                    *)
(***************************************************************************)
\* number of concurrent inbound request slots of the consumer
NumReq == 2

(***************************************************************************)
(* Characters and std::stoi.                                               *)
(***************************************************************************)
Digits == <<"0", "1", "2", "3", "4", "5", "6", "7", "8", "9">>

IsDigit(c) == \E d \in 1..10 : Digits[d] = c

DigitVal(c) == (CHOOSE d \in 1..10 : Digits[d] = c) - 1

IsSpace(c) == c = " "

IntMax == 2147483647

\* index of the first character of s at or after i that is not whitespace
RECURSIVE SkipSpaces(_, _)
SkipSpaces(s, i) ==
    IF i <= Len(s) /\ IsSpace(s[i]) THEN SkipSpaces(s, i + 1) ELSE i

\* index just past the run of digits of s that starts at i
RECURSIVE DigitsEnd(_, _)
DigitsEnd(s, i) ==
    IF i <= Len(s) /\ IsDigit(s[i]) THEN DigitsEnd(s, i + 1) ELSE i

\* the digits s[i..j-1] as a non-positive number (so that INT_MIN fits), or
\* 1 when the magnitude exceeds 2^31
RECURSIVE NegDigitsValue(_, _, _)
NegDigitsValue(s, i, j) ==
    IF j <= i THEN 0
    ELSE LET hi == NegDigitsValue(s, i, j - 1)
             d  == DigitVal(s[j - 1])
         IN  IF hi = 1 \/ hi < 0 - 214748364 \/ (hi = 0 - 214748364 /\ d > 8)
             THEN 1
             ELSE hi * 10 - d

\* std::stoi(s): skips leading whitespace, takes an optional sign and the
\* longest run of digits, ignores whatever follows; throws
\* std::invalid_argument when there is no digit and std::out_of_range when
\* the value does not fit an int.
Stoi(s) ==
    LET a    == SkipSpaces(s, 1)
        neg  == a <= Len(s) /\ s[a] = "-"
        b    == IF a <= Len(s) /\ s[a] \in {"-", "+"} THEN a + 1 ELSE a
        e    == DigitsEnd(s, b)
        nmag == NegDigitsValue(s, b, e)
    IN  IF e = b THEN [ok |-> FALSE, what |-> "invalid_argument", val |-> 0]
        ELSE IF nmag = 1 \/ (~neg /\ nmag = 0 - IntMax - 1)
             THEN [ok |-> FALSE, what |-> "out_of_range", val |-> 0]
             ELSE [ok |-> TRUE, what |-> "", val |-> IF neg THEN nmag ELSE 0 - nmag]

(***************************************************************************)
(* JSON (nlohmann::json) values, text, parse and dump.                     *)
(***************************************************************************)
\* object keys in std::map order
KeyOrder == <<"error", "original", "processed", "service", "status", "value">>

KeyRank(k) == CHOOSE r \in 1..Len(KeyOrder) : KeyOrder[r] = k

\* scalar values
JInt(n)  == [t |-> "int", n |-> n, s |-> ""]
JStr(s)  == [t |-> "str", n |-> 0, s |-> s]
JNull    == [t |-> "null", n |-> 0, s |-> ""]

\* a value: a scalar (m empty), an empty array, or an object whose members
\* m are <<key, scalar>> pairs in key order
Scalar(v) == [t |-> v.t, n |-> v.n, s |-> v.s, m |-> <<>>]
JArr      == [t |-> "arr", n |-> 0, s |-> "", m |-> <<>>]
JObj(m)   == [t |-> "obj", n |-> 0, s |-> "", m |-> m]
Member(k, v) == [key |-> k, val |-> v]

\* tokens of JSON text
TPunct(s) == [k |-> "punct", s |-> s, n |-> 0]
TStr(s)   == [k |-> "str", s |-> s, n |-> 0]
TNum(n)   == [k |-> "num", s |-> "", n |-> n]
TNull     == [k |-> "null", s |-> "", n |-> 0]
\* text that is no JSON token at all
TJunk     == [k |-> "junk", s |-> "<html>", n |-> 0]

IsScalarTok(tk) == tk.k \in {"str", "num", "null"}

TokScalar(tk) ==
    IF tk.k = "num" THEN JInt(tk.n)
    ELSE IF tk.k = "str" THEN JStr(tk.s)
    ELSE JNull

ScalarTok(v) ==
    IF v.t = "int" THEN TNum(v.n)
    ELSE IF v.t = "str" THEN TStr(v.s)
    ELSE TNull

\* std::map insert-or-assign into the ordered member list
RECURSIVE PutMember(_, _, _)
PutMember(m, k, v) ==
    IF m = <<>> THEN <<Member(k, v)>>
    ELSE IF m[1].key = k THEN <<Member(k, v)>> \o Tail(m)
    ELSE IF KeyRank(k) < KeyRank(m[1].key) THEN <<Member(k, v)>> \o m
    ELSE <<m[1]>> \o PutMember(Tail(m), k, v)

HasKey(m, k) == \E i \in 1..Len(m) : m[i].key = k

GetKey(m, k) == m[CHOOSE i \in 1..Len(m) : m[i].key = k].val

\* members of an object body: key ":" scalar { "," key ":" scalar }
RECURSIVE ParseMembers(_, _, _)
ParseMembers(toks, i, acc) ==
    IF i + 2 > Len(toks) THEN [ok |-> FALSE, m |-> <<>>]
    ELSE IF ~(toks[i].k = "str" /\ toks[i].s \in {KeyOrder[r] : r \in 1..Len(KeyOrder)}
              /\ toks[i + 1] = TPunct(":") /\ IsScalarTok(toks[i + 2]))
         THEN [ok |-> FALSE, m |-> <<>>]
    ELSE LET acc2 == PutMember(acc, toks[i].s, TokScalar(toks[i + 2]))
         IN  IF i + 2 = Len(toks) THEN [ok |-> TRUE, m |-> acc2]
             ELSE IF toks[i + 3] = TPunct(",") THEN ParseMembers(toks, i + 4, acc2)
             ELSE [ok |-> FALSE, m |-> <<>>]

\* json::parse(text): the whole text must be one value; anything else is a
\* parse_error
Parse(toks) ==
    LET bad == [ok |-> FALSE, val |-> Scalar(JNull)]
        n   == Len(toks)
    IN  IF n = 0 THEN bad
        ELSE IF n = 1 THEN
            IF IsScalarTok(toks[1]) THEN [ok |-> TRUE, val |-> Scalar(TokScalar(toks[1]))]
            ELSE bad
        ELSE IF toks = <<TPunct("["), TPunct("]")>> THEN [ok |-> TRUE, val |-> JArr]
        ELSE IF toks[1] = TPunct("{") /\ toks[n] = TPunct("}") THEN
            IF n = 2 THEN [ok |-> TRUE, val |-> JObj(<<>>)]
            ELSE LET r == ParseMembers(SubSeq(toks, 2, n - 1), 1, <<>>)
                 IN  IF r.ok THEN [ok |-> TRUE, val |-> JObj(r.m)] ELSE bad
        ELSE bad

RECURSIVE DumpMembers(_)
DumpMembers(m) ==
    IF m = <<>> THEN <<>>
    ELSE <<TStr(m[1].key), TPunct(":"), ScalarTok(m[1].val)>>
         \o (IF Len(m) > 1 THEN <<TPunct(",")>> ELSE <<>>)
         \o DumpMembers(Tail(m))

\* json::dump(): compact text, object keys in map order
Dump(v) ==
    IF v.t = "obj" THEN <<TPunct("{")>> \o DumpMembers(v.m) \o <<TPunct("}")>>
    ELSE IF v.t = "arr" THEN <<TPunct("["), TPunct("]")>>
    ELSE <<ScalarTok(v)>>

\* json::operator[](key) on a non-const value: null becomes an object, a
\* missing key is inserted as null, any other type throws type_error
Index(v, k) ==
    IF v.t = "obj" THEN
        [ok |-> TRUE, val |-> IF HasKey(v.m, k) THEN GetKey(v.m, k) ELSE JNull]
    ELSE IF v.t = "null" THEN [ok |-> TRUE, val |-> JNull]
    ELSE [ok |-> FALSE, val |-> JNull]

(***************************************************************************)
(* Environment and configuration of the consumer.                          *)
(***************************************************************************)
\* an environment variable: unset, or set to a text
Unset      == [set |-> FALSE, val |-> <<>>]
SetTo(txt) == [set |-> TRUE, val |-> txt]

\* getEnv(name, defaultValue)
getEnv(e, name, defaultValue) == IF e[name].set THEN e[name].val ELSE defaultValue

DefaultPort          == <<"8", "0", "8", "2">>
DefaultProcessorHost == <<"p", "r", "o", "c", "e", "s", "s", "o", "r">>
DefaultProcessorPort == <<"8", "0", "8", "1">>
DefaultPollInterval  == <<"5">>

NoConfig ==
    [port |-> 0, processorHost |-> <<>>, processorPort |-> <<>>,
     pollIntervalSeconds |-> 0, processorUrl |-> <<>>]

\* loadConfig(): the two std::stoi calls may throw; nothing catches
loadConfig(e) ==
    LET port == Stoi(getEnv(e, "PORT", DefaultPort))
        host == getEnv(e, "PROCESSOR_HOST", DefaultProcessorHost)
        pprt == getEnv(e, "PROCESSOR_PORT", DefaultProcessorPort)
        poll == Stoi(getEnv(e, "POLL_INTERVAL_SECONDS", DefaultPollInterval))
    IN  IF ~port.ok \/ ~poll.ok THEN [ok |-> FALSE, cfg |-> NoConfig]
        ELSE [ok |-> TRUE,
              cfg |-> [port |-> port.val, processorHost |-> host,
                       processorPort |-> pprt, pollIntervalSeconds |-> poll.val,
                       processorUrl |-> <<"h", "t", "t", "p", ":", "/", "/">>
                                        \o host \o <<":">> \o pprt]]

\* environments the consumer is started in: the defaults, or a value that
\* std::stoi rejects
PortInputs == {Unset, SetTo(<<"x">>)}
PollInputs == {Unset, SetTo(<<"x">>)}
HostInputs == {Unset}
ProcessorPortInputs == {Unset}

Envs ==
    [PORT : PortInputs, PROCESSOR_HOST : HostInputs,
     PROCESSOR_PORT : ProcessorPortInputs, POLL_INTERVAL_SECONDS : PollInputs]

\* more environments, for the properties of startup
StartupPortInputs == PortInputs \cup {SetTo(<<"8", "x">>)}
StartupPollInputs == PollInputs \cup {SetTo(<<"2">>), SetTo(<<"0">>)}

StartupEnvs ==
    [PORT : StartupPortInputs, PROCESSOR_HOST : HostInputs,
     PROCESSOR_PORT : ProcessorPortInputs, POLL_INTERVAL_SECONDS : StartupPollInputs]

(***************************************************************************)
(* Upstream results (httplib::Result) and the consumer's handlers.         *)
(***************************************************************************)
\* no response: connection refused, DNS failure, reset
NoResp == [got |-> FALSE, status |-> 0, body |-> <<>>]
Resp(status, body) == [got |-> TRUE, status |-> status, body |-> body]

ResultBody(o, p) ==
    Dump(JObj(<<Member("original", JInt(o)), Member("processed", JInt(p))>>))

ErrorBody(msg) == Dump(JObj(<<Member("error", JStr(msg))>>))

\* what a mock upstream may answer to GET /process
UpstreamPairs == {<<1, 2>>, <<2, 1>>}
GoodBodies == {ResultBody(pr[1], pr[2]) : pr \in UpstreamPairs}
TruncatedBody == SubSeq(ResultBody(1, 2), 1, 5)
MissingFieldBody == Dump(JObj(<<Member("original", JInt(1))>>))
WrongTypeBody ==
    Dump(JObj(<<Member("original", JStr("one")), Member("processed", JInt(2))>>))
NonObjectBody == Dump(JArr)
ProcessorErrorBody == ErrorBody("Failed to call Producer service")

Outcomes ==
    {NoResp}
    \cup {Resp(200, b) : b \in GoodBodies}
    \cup {Resp(200, TruncatedBody), Resp(200, MissingFieldBody),
          Resp(200, WrongTypeBody), Resp(200, NonObjectBody)}
    \cup {Resp(500, ProcessorErrorBody), Resp(500, ResultBody(1, 2))}

\* a line written to stdout or stderr
ValueLine(stream, tag, o, p) ==
    [stream |-> stream, tag |-> tag, msg |-> "", original |-> o, processed |-> p]
TextLine(stream, tag, msg) ==
    [stream |-> stream, tag |-> tag, msg |-> msg, original |-> JNull, processed |-> JNull]

\* One poller iteration's outcome branch: the lines it logs.  A body that
\* does not parse, or parses to a non-object, throws inside the try block
\* and is logged by the catch clause.  (When operator[] throws, the text
\* "[CONSUME] Original: " may already be on stdout, without a newline: it
\* is no line and is not recorded.)
PollerOutcome(r) ==
    IF r.got /\ r.status = 200 THEN
        LET data == Parse(r.body)
            o    == Index(data.val, "original")
            p    == Index(data.val, "processed")
        IN  IF ~data.ok \/ ~o.ok
            THEN <<TextLine("stderr", "[ERROR]", "Consumption error")>>
            ELSE <<ValueLine("stdout", "[CONSUME]", o.val, p.val)>>
    ELSE <<TextLine("stderr", "[ERROR]", "Failed to call Processor service")>>

\* httplib::Response as the handler leaves it (status -1: not set), whether
\* the handler threw, and the lines it logged
FreshResponse == [status |-> 0 - 1, body |-> <<>>]

ManualCalled == TextLine("stdout", "[MANUAL]", "Consume endpoint called")

\* ConsumeHandler without the set_content of the success branch
ConsumeHandlerNoBody(r) ==
    IF r.got /\ r.status = 200 THEN
        LET data == Parse(r.body)
            o    == Index(data.val, "original")
            p    == Index(data.val, "processed")
        IN  IF ~data.ok \/ ~o.ok
            THEN [res |-> FreshResponse, threw |-> TRUE, out |-> <<ManualCalled>>]
            ELSE [res |-> FreshResponse, threw |-> FALSE,
                  out |-> <<ManualCalled, ValueLine("stdout", "[MANUAL]", o.val, p.val)>>]
    ELSE [res |-> [status |-> 500,
                   body |-> ErrorBody("Failed to call Processor service")],
          threw |-> FALSE, out |-> <<ManualCalled>>]

\* The /consume handler after its Get returned r.  The body is copied to the
\* response before it is parsed, and nothing catches what parse or
\* operator[] throw.
ConsumeHandler(r) ==
    IF r.got /\ r.status = 200 THEN
        LET res  == [FreshResponse EXCEPT !.body = r.body]
            data == Parse(r.body)
            o    == Index(data.val, "original")
            p    == Index(data.val, "processed")
        IN  IF ~data.ok \/ ~o.ok
            THEN [res |-> res, threw |-> TRUE, out |-> <<ManualCalled>>]
            ELSE [res |-> res, threw |-> FALSE,
                  out |-> <<ManualCalled, ValueLine("stdout", "[MANUAL]", o.val, p.val)>>]
    ELSE [res |-> [status |-> 500,
                   body |-> ErrorBody("Failed to call Processor service")],
          threw |-> FALSE, out |-> <<ManualCalled>>]

\* HealthHandler as copied from another service, its name not changed
HealthHandlerCopied ==
    [res |-> [FreshResponse EXCEPT !.body =
                 Dump(JObj(PutMember(PutMember(<<>>, "status", JStr("healthy")),
                                     "service", JStr("processor"))))],
     threw |-> FALSE, out |-> <<>>]

\* The /health handler.
HealthHandler ==
    [res |-> [FreshResponse EXCEPT !.body =
                 Dump(JObj(PutMember(PutMember(<<>>, "status", JStr("healthy")),
                                     "service", JStr("consumer"))))],
     threw |-> FALSE, out |-> <<>>]

\* What the HTTP server sends for a handler's result: an unset status is
\* 200; a handler that threw is answered 500 with the response as the
\* handler left it, and the process stays up.
ServerFinish(h) ==
    IF h.threw THEN [h.res EXCEPT !.status = 500]
    ELSE IF h.res.status = 0 - 1 THEN [h.res EXCEPT !.status = 200]
    ELSE h.res

(***************************************************************************)
(* The producer's and the processor's handlers.                            *)
(***************************************************************************)
\* std::uniform_int_distribution<> dis(1, 100)
DisLo == 1
DisHi == 100

\* The producer's /data handler, having drawn value.
DataHandler(value) ==
    [res |-> [FreshResponse EXCEPT !.body =
                 Dump(JObj(PutMember(<<>>, "value", JInt(value))))],
     threw |-> FALSE, out |-> <<>>]

\* what the processor's Get("/data") may return: the producer's answer, no
\* response, or a non-200 answer made on the way
ProducerResults ==
    {NoResp, Resp(503, <<>>)}
    \cup {LET a == ServerFinish(DataHandler(v)) IN Resp(a.status, a.body) :
            v \in DisLo..DisHi}

\* TimesTwo with the wrong operator
PlusTwo(v) == v + 2

\* original_value * 2 in int (two's complement wrap-around)
TimesTwo(v) ==
    IF v > 1073741823 THEN ((v - 1073741824) * 2 - IntMax) - 1
    ELSE IF v < 0 - 1073741824 THEN ((v + 1073741824) * 2 + IntMax) + 1
    ELSE v * 2

\* ProcessHandler without res.status = 500 in the failure branch
ProcessHandlerNoStatus(r) ==
    IF r.got /\ r.status = 200 THEN
        LET producer_data == Parse(r.body)
            value          == Index(producer_data.val, "value")
        IN  IF ~producer_data.ok \/ ~value.ok \/ value.val.t # "int"
            THEN [res |-> FreshResponse, threw |-> TRUE, out |-> <<>>]
            ELSE LET original_value  == value.val.n
                     processed_value == TimesTwo(original_value)
                 IN  [res |-> [FreshResponse EXCEPT !.body =
                                  Dump(JObj(PutMember(
                                      PutMember(<<>>, "original", JInt(original_value)),
                                      "processed", JInt(processed_value))))],
                      threw |-> FALSE,
                      out |-> <<ValueLine("stdout", "Recieved", JInt(original_value),
                                          JInt(processed_value))>>]
    ELSE [res |-> [FreshResponse EXCEPT !.body =
                      ErrorBody("Failed to call Producer service")],
          threw |-> FALSE,
          out |-> <<TextLine("stderr", "Error", "Could not reach Producer")>>]

\* The processor's /process handler after its Get("/data") returned r.
\* int original_value = producer_data["value"] throws unless it is a number.
ProcessHandler(r) ==
    IF r.got /\ r.status = 200 THEN
        LET producer_data == Parse(r.body)
            value          == Index(producer_data.val, "value")
        IN  IF ~producer_data.ok \/ ~value.ok \/ value.val.t # "int"
            THEN [res |-> FreshResponse, threw |-> TRUE, out |-> <<>>]
            ELSE LET original_value  == value.val.n
                     processed_value == TimesTwo(original_value)
                 IN  [res |-> [FreshResponse EXCEPT !.body =
                                  Dump(JObj(PutMember(
                                      PutMember(<<>>, "original", JInt(original_value)),
                                      "processed", JInt(processed_value))))],
                      threw |-> FALSE,
                      out |-> <<ValueLine("stdout", "Recieved", JInt(original_value),
                                          JInt(processed_value))>>]
    ELSE [res |-> [status |-> 500,
                   body |-> ErrorBody("Failed to call Producer service")],
          threw |-> FALSE,
          out |-> <<TextLine("stderr", "Error", "Could not reach Producer")>>]

(***************************************************************************)
(* Environment and startup of the processor.                               *)
(***************************************************************************)
DefaultProducerHost == <<"p", "r", "o", "d", "u", "c", "e", "r">>
DefaultProducerPort == <<"8", "0", "8", "0">>

\* main() of the processor up to the handler registration: std::stoi may
\* throw; producerUrl is built from the environment
processorMain(e) ==
    LET port         == Stoi(getEnv(e, "PORT", DefaultProcessorPort))
        producerHost == getEnv(e, "PRODUCER_HOST", DefaultProducerHost)
        producerPort == getEnv(e, "PRODUCER_PORT", DefaultProducerPort)
    IN  [ok |-> port.ok,
         port |-> IF port.ok THEN port.val ELSE 0,
         producerUrl |-> <<"h", "t", "t", "p", ":", "/", "/">>
                         \o producerHost \o <<":">> \o producerPort]

\* the two lines the processor writes before it listens
ProcessorStartupLog(m) ==
    <<[msg |-> "Processor listening on port ", port |-> m.port, url |-> <<>>],
      [msg |-> "Producer URL: ", port |-> 0, url |-> m.producerUrl]>>

\* ProcessorTarget taken from the configuration
ProcessorTargetConfigured(m) == m.producerUrl

\* httplib::Client cli("http://producer:8080"); in the /process handler,
\* whose lambda captures nothing
ProcessorTarget(m) ==
    <<"h", "t", "t", "p", ":", "/", "/", "p", "r", "o", "d", "u", "c", "e", "r",
      ":", "8", "0", "8", "0">>

\* environments the processor is started in
ProcessorPortEnvInputs == {Unset, SetTo(<<"x">>)}
ProducerHostInputs     == {Unset, SetTo(<<"p">>)}
ProducerPortInputs     == {Unset, SetTo(<<"9">>)}

ProcessorEnvs ==
    [PORT : ProcessorPortEnvInputs, PRODUCER_HOST : ProducerHostInputs,
     PRODUCER_PORT : ProducerPortInputs]

DefaultProcessorEnv == [PORT |-> Unset, PRODUCER_HOST |-> Unset, PRODUCER_PORT |-> Unset]

\* a processor process in environment e that has not run yet
ProcessorNotStarted(e) ==
    [pc |-> "start", env |-> e, producerUrl |-> <<>>, log |-> <<>>]

\* what the consumer's Get("/process") may return when its upstream is the
\* processor: no response, or the processor's answer
ChainResults ==
    {NoResp}
    \cup {LET a == ServerFinish(ProcessHandler(pr)) IN Resp(a.status, a.body) :
            pr \in ProducerResults}

\* every result a Get("/process") of the consumer returns in this model
Results == Outcomes \cup ChainResults

\* the consumer's two outcome branches, evaluated once per result
consumeHandled == [r \in Results |-> ConsumeHandler(r)]
pollerLogged   == [r \in Results |-> PollerOutcome(r)]

(***************************************************************************)
(* State of a consumer process and of its connections.                     *)
(***************************************************************************)
VARIABLES
    env,          \* the environment the process was started in
    mainPc,       \* main(): "start", "configured", "spawned", "serving",
                  \*         "aborted" (terminate) or "exited" (returned)
    config,       \* the Config main() loaded and the lambdas captured
    pollerPc,     \* consumptionThread: "none", "startupDelay", "top",
                  \*                    "fetching", "sleep"
    pollerLines,  \* lines the poller logged in its current iteration
    reqPc,        \* per request slot: "idle", "fetching", "done"
    reqPath,      \* per request slot: the path requested
    resp,         \* per request slot: the response sent
    manualOut,    \* per request slot: lines its handler logged
    net,          \* per fetcher (0: poller, i: slot i): its GET /process
    gets,         \* per fetcher: GETs issued in its current iteration or
                  \*              invocation
    pollerSleeps, \* the sleeps the poller took since its last Get
    processor     \* the processor process: pc, environment, producerUrl, log

vars ==
    <<env, mainPc, config, pollerPc, pollerLines, reqPc, reqPath, resp,
      manualOut, net, gets, pollerSleeps, processor>>

Slots    == 1..NumReq
Poller   == 0
Fetchers == {Poller} \cup Slots

\* a GET /process: not issued, waiting for the upstream, or answered with
\* res; up is what the upstream's own upstream told it for this request
\* upUrl is where the upstream sent its own request (empty when it sent none)
NoFetch ==
    [st |-> "none", url |-> <<>>, res |-> NoResp, up |-> NoResp, upUrl |-> <<>>]
Pending(url) ==
    [st |-> "pending", url |-> url, res |-> NoResp, up |-> NoResp, upUrl |-> <<>>]
Answered(f, r) ==
    [st |-> "answered", url |-> f.url, res |-> r, up |-> NoResp, upUrl |-> <<>>]

\* the poller's two sleeps
StartupDelay       == [kind |-> "startup", secs |-> 1]
IntervalSleep(sec) == [kind |-> "interval", secs |-> sec]

\* The server runs every inbound request as a task of its own: a request
\* can be taken on slot i whenever the server listens and the slot is free.
ServerAccepts(i) == mainPc = "serving" /\ reqPc[i] = "idle"

\* cli.Get("/process") of fetcher f has returned.  No timeout is set on the
\* client: the call returns when the upstream has answered or the
\* connection has failed, and not before.
GetReturned(f) == net[f].st = "answered"

\* the process exists and its threads run
Running == mainPc \in {"spawned", "serving"}

\* a consumer process that has not run yet
ConsumerFresh ==
    /\ mainPc = "start"
    /\ config = NoConfig
    /\ pollerPc = "none"
    /\ pollerLines = <<>>
    /\ reqPc = [i \in Slots |-> "idle"]
    /\ reqPath = [i \in Slots |-> ""]
    /\ resp = [i \in Slots |-> FreshResponse]
    /\ manualOut = [i \in Slots |-> <<>>]
    /\ net = [f \in Fetchers |-> NoFetch]
    /\ gets = [f \in Fetchers |-> 0]
    /\ pollerSleeps = <<>>

Init ==
    /\ env \in Envs
    /\ ConsumerFresh
    /\ processor = ProcessorNotStarted(DefaultProcessorEnv)

(***************************************************************************)
(* main()                                                                  *)
(***************************************************************************)
\* Config config = loadConfig();  an exception here ends the process
LoadConfig ==
    /\ mainPc = "start"
    /\ LET c == loadConfig(env)
       IN  IF c.ok
           THEN mainPc' = "configured" /\ config' = c.cfg
           ELSE mainPc' = "aborted" /\ config' = config
    /\ UNCHANGED <<env, pollerPc, pollerLines, reqPc, reqPath, resp, manualOut, net,
                   gets, pollerSleeps, processor>>

\* std::thread consumptionThread([config]() {...});
SpawnPoller ==
    /\ mainPc = "configured"
    /\ mainPc' = "spawned"
    /\ pollerPc' = "startupDelay"
    /\ UNCHANGED <<env, config, pollerLines, reqPc, reqPath, resp, manualOut, net,
                   gets, pollerSleeps, processor>>

\* svr.listen("0.0.0.0", config.port): serves for ever, or returns at once
\* when the port cannot be bound, and main returns
Listen ==
    /\ mainPc = "spawned"
    /\ \E bound \in BOOLEAN : mainPc' = IF bound THEN "serving" ELSE "exited"
    /\ UNCHANGED <<env, config, pollerPc, pollerLines, reqPc, reqPath, resp,
                   manualOut, net,
                   gets, pollerSleeps, processor>>

(***************************************************************************)
(* The background poller thread.                                           *)
(***************************************************************************)
\* std::this_thread::sleep_for(std::chrono::seconds(1));
PollerStartupDelay ==
    /\ Running /\ pollerPc = "startupDelay"
    /\ pollerPc' = "top"
    /\ pollerSleeps' = Append(pollerSleeps, StartupDelay)
    /\ UNCHANGED <<env, mainPc, config, pollerLines, reqPc, reqPath, resp,
                   manualOut, net,
                   gets, processor>>

\* PollerGet with the target read from the environment at every iteration
\* instead of the captured config
PollerGetRereadsEnv ==
    /\ Running /\ pollerPc = "top"
    /\ pollerPc' = "fetching"
    /\ pollerLines' = <<>>
    /\ net' = [net EXCEPT ![Poller] = Pending(loadConfig(env).cfg.processorUrl)]
    /\ gets' = [gets EXCEPT ![Poller] = @ + 1]
    /\ pollerSleeps' = <<>>
    /\ UNCHANGED <<env, mainPc, config, reqPc, reqPath, resp, manualOut,
                   processor>>

\* httplib::Client cli(config.processorUrl); cli.Get("/process") is issued
PollerGet ==
    /\ Running /\ pollerPc = "top"
    /\ pollerPc' = "fetching"
    /\ pollerLines' = <<>>
    /\ net' = [net EXCEPT ![Poller] = Pending(config.processorUrl)]
    /\ gets' = [gets EXCEPT ![Poller] = @ + 1]
    /\ pollerSleeps' = <<>>
    /\ UNCHANGED <<env, mainPc, config, reqPc, reqPath, resp, manualOut,
                   processor>>

\* PollerLog without the try/catch: an exception in the loop body ends the
\* process
PollerLogNoCatch ==
    /\ Running /\ pollerPc = "fetching"
    /\ GetReturned(Poller)
    /\ LET r      == net[Poller].res
           threw  == r.got /\ r.status = 200
                     /\ (~Parse(r.body).ok \/ ~Index(Parse(r.body).val, "original").ok)
       IN  IF threw
           THEN mainPc' = "aborted" /\ UNCHANGED <<pollerLines, pollerPc>>
           ELSE /\ pollerLines' = pollerLines \o pollerLogged[r]
                /\ pollerPc' = "sleep"
                /\ mainPc' = mainPc
    /\ UNCHANGED <<env, config, reqPc, reqPath, resp, manualOut, net,
                   gets, pollerSleeps, processor>>

\* Get returned: the outcome branch logs, then the thread goes to sleep
PollerLog ==
    /\ Running /\ pollerPc = "fetching"
    /\ GetReturned(Poller)
    /\ pollerLines' = pollerLines \o pollerLogged[net[Poller].res]
    /\ pollerPc' = "sleep"
    /\ UNCHANGED <<env, mainPc, config, reqPc, reqPath, resp, manualOut, net,
                   gets, pollerSleeps, processor>>

\* PollerSleep inside the success branch: after a fetch that got no
\* response the loop goes round without sleeping
PollerSleepSkipped ==
    /\ Running /\ pollerPc = "sleep"
    /\ pollerPc' = "top"
    /\ pollerSleeps' = IF net[Poller].res.got
                       THEN Append(pollerSleeps, IntervalSleep(config.pollIntervalSeconds))
                       ELSE pollerSleeps
    /\ gets' = [gets EXCEPT ![Poller] = 0]
    /\ UNCHANGED <<env, mainPc, config, pollerLines, reqPc, reqPath, resp,
                   manualOut, net, processor>>

\* sleep_for(seconds(config.pollIntervalSeconds)) is over
PollerSleep ==
    /\ Running /\ pollerPc = "sleep"
    /\ pollerPc' = "top"
    /\ pollerSleeps' = Append(pollerSleeps, IntervalSleep(config.pollIntervalSeconds))
    /\ gets' = [gets EXCEPT ![Poller] = 0]
    /\ UNCHANGED <<env, mainPc, config, pollerLines, reqPc, reqPath, resp,
                   manualOut, net,
                   processor>>

(***************************************************************************)
(* The upstream.                                                           *)
(***************************************************************************)
\* the upstream answers fetcher f's request, or the connection fails
UpstreamAnswer(f) ==
    /\ Running /\ net[f].st = "pending"
    /\ \E r \in Outcomes : net' = [net EXCEPT ![f] = Answered(net[f], r)]
    /\ UNCHANGED <<env, mainPc, config, pollerPc, pollerLines, reqPc, reqPath,
                   resp, manualOut,
                   gets, pollerSleeps, processor>>

(***************************************************************************)
(* Request handlers, one server task per request.                          *)
(***************************************************************************)
\* StartConsume with one client shared under a lock with the poller
StartConsumeSerialized(i) ==
    /\ ServerAccepts(i)
    /\ net[Poller].st # "pending"
    /\ \A j \in Slots : net[j].st # "pending"
    /\ reqPc' = [reqPc EXCEPT ![i] = "fetching"]
    /\ reqPath' = [reqPath EXCEPT ![i] = "/consume"]
    /\ net' = [net EXCEPT ![i] = Pending(config.processorUrl)]
    /\ gets' = [gets EXCEPT ![i] = @ + 1]
    /\ UNCHANGED <<env, mainPc, config, pollerPc, pollerLines, resp, manualOut,
                   pollerSleeps, processor>>

\* GET /consume arrives: the handler logs and issues its own Get
StartConsume(i) ==
    /\ ServerAccepts(i)
    /\ reqPc' = [reqPc EXCEPT ![i] = "fetching"]
    /\ reqPath' = [reqPath EXCEPT ![i] = "/consume"]
    /\ net' = [net EXCEPT ![i] = Pending(config.processorUrl)]
    /\ gets' = [gets EXCEPT ![i] = @ + 1]
    /\ UNCHANGED <<env, mainPc, config, pollerPc, pollerLines, resp, manualOut,
                   pollerSleeps, processor>>

\* FinishConsume with the Get result kept in one variable shared by all
\* callers: the handler reads whichever answer arrived, not its own
FinishConsumeShared(i) ==
    /\ mainPc = "serving" /\ reqPc[i] = "fetching"
    /\ GetReturned(i)
    /\ \E f \in Fetchers :
         /\ net[f].st = "answered"
         /\ LET h == consumeHandled[net[f].res]
            IN  /\ resp' = [resp EXCEPT ![i] = ServerFinish(h)]
                /\ manualOut' = [manualOut EXCEPT ![i] = h.out]
    /\ reqPc' = [reqPc EXCEPT ![i] = "done"]
    /\ UNCHANGED <<env, mainPc, config, pollerPc, pollerLines, reqPath, net,
                   gets, pollerSleeps, processor>>

\* the handler's Get returned: the rest of the handler, and the response
FinishConsume(i) ==
    /\ mainPc = "serving" /\ reqPc[i] = "fetching"
    /\ GetReturned(i)
    /\ LET h == consumeHandled[net[i].res]
       IN  /\ resp' = [resp EXCEPT ![i] = ServerFinish(h)]
           /\ manualOut' = [manualOut EXCEPT ![i] = h.out]
    /\ reqPc' = [reqPc EXCEPT ![i] = "done"]
    /\ UNCHANGED <<env, mainPc, config, pollerPc, pollerLines, reqPath, net,
                   gets, pollerSleeps, processor>>

\* GET /health arrives and is answered
Health(i) ==
    /\ ServerAccepts(i)
    /\ reqPath' = [reqPath EXCEPT ![i] = "/health"]
    /\ resp' = [resp EXCEPT ![i] = ServerFinish(HealthHandler)]
    /\ reqPc' = [reqPc EXCEPT ![i] = "done"]
    /\ UNCHANGED <<env, mainPc, config, pollerPc, pollerLines, manualOut, net,
                   gets, pollerSleeps, processor>>

\* the client has its response; the slot is free for the next request
Deliver(i) ==
    /\ mainPc = "serving" /\ reqPc[i] = "done"
    /\ reqPc' = [reqPc EXCEPT ![i] = "idle"]
    /\ reqPath' = [reqPath EXCEPT ![i] = ""]
    /\ resp' = [resp EXCEPT ![i] = FreshResponse]
    /\ manualOut' = [manualOut EXCEPT ![i] = <<>>]
    /\ net' = [net EXCEPT ![i] = NoFetch]
    /\ gets' = [gets EXCEPT ![i] = 0]
    /\ UNCHANGED <<env, mainPc, config, pollerPc, pollerLines,
                   pollerSleeps, processor>>

PollerStep == PollerStartupDelay \/ PollerGet \/ PollerLog \/ PollerSleep

Next ==
    \/ LoadConfig
    \/ SpawnPoller
    \/ Listen
    \/ PollerStartupDelay
    \/ PollerGet
    \/ PollerLog
    \/ PollerSleep
    \/ \E f \in Fetchers : UpstreamAnswer(f)
    \/ \E i \in Slots : StartConsume(i)
    \/ \E i \in Slots : FinishConsume(i)
    \/ \E i \in Slots : Health(i)
    \/ \E i \in Slots : Deliver(i)

Spec == Init /\ [][Next]_vars

\* the same program, started in any of the startup environments
InitStartup ==
    /\ env \in StartupEnvs
    /\ ConsumerFresh
    /\ processor = ProcessorNotStarted(DefaultProcessorEnv)

StartupSpec == InitStartup /\ [][Next]_vars

\* the program's own steps are scheduled fairly; the upstream owes nothing
FairSpec ==
    /\ Spec
    /\ WF_vars(PollerStep)
    /\ \A i \in Slots : WF_vars(FinishConsume(i))

\* the poller thread is scheduled, and the upstream settles every request
\* of the poller, one way or another
ResponsiveSpec ==
    /\ Spec
    /\ WF_vars(PollerStep)
    /\ WF_vars(UpstreamAnswer(Poller))

(***************************************************************************)
(* The consumer in an environment that changes after startup.              *)
(***************************************************************************)
ConfigHostInputs          == {Unset, SetTo(<<"p">>)}
ConfigProcessorPortInputs == {Unset, SetTo(<<"9">>)}
ConfigPollInputs          == {Unset, SetTo(<<"2">>)}

ConfigEnvs ==
    [PORT : {Unset}, PROCESSOR_HOST : ConfigHostInputs,
     PROCESSOR_PORT : ConfigProcessorPortInputs,
     POLL_INTERVAL_SECONDS : ConfigPollInputs]

\* the environment changes once loadConfig has read it: std::getenv would
\* return the new values, were it called again
EnvChange ==
    /\ mainPc \in {"configured", "spawned", "serving"}
    /\ env' \in ConfigEnvs \ {env}
    /\ UNCHANGED <<mainPc, config, pollerPc, pollerLines, reqPc, reqPath, resp,
                   manualOut, net, gets, pollerSleeps, processor>>

\* observed through the poller and one request slot
ConfigSlots == {1}

InitConfig ==
    /\ env \in ConfigEnvs
    /\ ConsumerFresh
    /\ processor = ProcessorNotStarted(DefaultProcessorEnv)

NextConfig ==
    \/ LoadConfig
    \/ SpawnPoller
    \/ Listen
    \/ EnvChange
    \/ PollerStartupDelay
    \/ PollerGet
    \/ PollerLog
    \/ PollerSleep
    \/ \E f \in {Poller} \cup ConfigSlots : UpstreamAnswer(f)
    \/ \E i \in ConfigSlots : StartConsume(i)
    \/ \E i \in ConfigSlots : FinishConsume(i)
    \/ \E i \in ConfigSlots : Health(i)
    \/ \E i \in ConfigSlots : Deliver(i)

ConfigSpec == InitConfig /\ [][NextConfig]_vars

(***************************************************************************)
(* The chain: the consumer's upstream is the processor, whose upstream is  *)
(* the producer.                                                           *)
(***************************************************************************)
\* main() of the processor: configuration, the startup lines, then
\* svr.listen, which serves for ever or returns when the port cannot be bound
ProcessorStart ==
    /\ processor.pc = "start"
    /\ LET m == processorMain(processor.env)
       IN  IF ~m.ok
           THEN processor' = [processor EXCEPT !.pc = "aborted"]
           ELSE \E bound \in BOOLEAN :
                  processor' = [processor EXCEPT
                                   !.pc = IF bound THEN "serving" ELSE "exited",
                                   !.producerUrl = m.producerUrl,
                                   !.log = ProcessorStartupLog(m)]
    /\ UNCHANGED <<env, mainPc, config, pollerPc, pollerLines, reqPc, reqPath,
                   resp, manualOut, net, gets, pollerSleeps>>

\* fetcher f's request reaches the processor, which asks the producer and
\* answers; or the processor is not reached at all
ChainAnswer(f) ==
    /\ Running /\ net[f].st = "pending"
    /\ \/ net' = [net EXCEPT ![f] = Answered(net[f], NoResp)]
       \/ /\ processor.pc = "serving"
          /\ \E pr \in ProducerResults :
               LET a == ServerFinish(ProcessHandler(pr))
               IN  net' = [net EXCEPT ![f] =
                              [Answered(net[f], Resp(a.status, a.body))
                                  EXCEPT !.up = pr,
                                         !.upUrl = ProcessorTarget(processor)]]
    /\ UNCHANGED <<env, mainPc, config, pollerPc, pollerLines, reqPc, reqPath,
                   resp, manualOut,
                   gets, pollerSleeps, processor>>

\* the chain is observed through the poller and one request slot
ChainSlots == {1}

InitChain ==
    /\ env = [PORT |-> Unset, PROCESSOR_HOST |-> Unset, PROCESSOR_PORT |-> Unset,
              POLL_INTERVAL_SECONDS |-> Unset]
    /\ ConsumerFresh
    /\ processor \in {ProcessorNotStarted(e) : e \in ProcessorEnvs}

NextChain ==
    \/ ProcessorStart
    \/ LoadConfig
    \/ SpawnPoller
    \/ Listen
    \/ PollerStartupDelay
    \/ PollerGet
    \/ PollerLog
    \/ PollerSleep
    \/ \E f \in {Poller} \cup ChainSlots : ChainAnswer(f)
    \/ \E i \in ChainSlots : StartConsume(i)
    \/ \E i \in ChainSlots : FinishConsume(i)
    \/ \E i \in ChainSlots : Health(i)
    \/ \E i \in ChainSlots : Deliver(i)

ChainSpec == InitChain /\ [][NextChain]_vars

TypeOK ==
    /\ mainPc \in {"start", "configured", "spawned", "serving", "aborted", "exited"}
    /\ pollerPc \in {"none", "startupDelay", "top", "fetching", "sleep"}
    /\ \A i \in Slots : reqPc[i] \in {"idle", "fetching", "done"}

(***************************************************************************)
(* Vocabulary of the properties.                                           *)
(***************************************************************************)
ConsumeDone(i) == reqPc[i] = "done" /\ reqPath[i] = "/consume"
HealthDone(i)  == reqPc[i] = "done" /\ reqPath[i] = "/health"

\* v is an object with an integer original and an integer processed
HasIntFields(v) ==
    /\ v.t = "obj"
    /\ HasKey(v.m, "original") /\ GetKey(v.m, "original").t = "int"
    /\ HasKey(v.m, "processed") /\ GetKey(v.m, "processed").t = "int"

\* status 200 and a body {"original": o, "processed": p}, o and p integers
ValidUpstream(r) ==
    /\ r.got /\ r.status = 200
    /\ Parse(r.body).ok
    /\ HasIntFields(Parse(r.body).val) /\ Len(Parse(r.body).val.m) = 2

\* no response, a non-200 status, or a 200 whose body is not JSON
UpstreamFailure(r) == ~r.got \/ r.status # 200 \/ ~Parse(r.body).ok

\* status 200 and a JSON body without an integer original and processed
FieldsInvalid(r) ==
    /\ r.got /\ r.status = 200
    /\ Parse(r.body).ok
    /\ ~HasIntFields(Parse(r.body).val)

\* body is a JSON object whose error member is a non-empty string
HasErrorField(body) ==
    LET d == Parse(body)
    IN  /\ d.ok /\ d.val.t = "obj"
        /\ HasKey(d.val.m, "error")
        /\ GetKey(d.val.m, "error").t = "str"
        /\ GetKey(d.val.m, "error").s # ""

(***************************************************************************)
(* C1.  For every upstream /process response with status 200 and a body    *)
(* {"original": o, "processed": p}, o and p integers, GET /consume answers *)
(* 200 with a body that carries exactly that original and that processed.  *)
(***************************************************************************)
C1_ValidUpstreamForwarded ==
    \A i \in Slots :
        (ConsumeDone(i) /\ ValidUpstream(net[i].res)) =>
            /\ resp[i].status = 200
            /\ resp[i].body = net[i].res.body
            /\ LET up == Parse(net[i].res.body).val
                   dn == Parse(resp[i].body)
               IN  /\ dn.ok /\ dn.val.t = "obj" /\ Len(dn.val.m) = 2
                   /\ Index(dn.val, "original") = Index(up, "original")
                   /\ Index(dn.val, "processed") = Index(up, "processed")
                   /\ Index(dn.val, "original").val.t = "int"
                   /\ Index(dn.val, "processed").val.t = "int"

C1_Witness ==
    \E i \in Slots :
        /\ ConsumeDone(i) /\ ValidUpstream(net[i].res)
        /\ resp[i].status = 200
        /\ resp[i].body = ResultBody(2, 1)

(***************************************************************************)
(* C2.  For every upstream failure (no response, a non-200 status, or a    *)
(* 200 whose body is not parseable JSON) GET /consume answers 500 with a   *)
(* JSON body whose error member is a non-empty string, and the process     *)
(* keeps running.                                                          *)
(***************************************************************************)
C2_UpstreamFailureAnswered500 ==
    \A i \in Slots :
        (ConsumeDone(i) /\ UpstreamFailure(net[i].res)) =>
            /\ resp[i].status = 500
            /\ HasErrorField(resp[i].body)
            /\ Running

(***************************************************************************)
(* C3.  A 200 response whose JSON body lacks an integer original or        *)
(* processed is a failure on both paths: GET /consume answers 500 with an  *)
(* error body, and the poller logs an error line, never a [CONSUME] line.  *)
(***************************************************************************)
C3_InvalidFieldsAreFailure ==
    /\ \A i \in Slots :
        (ConsumeDone(i) /\ FieldsInvalid(net[i].res)) =>
            resp[i].status = 500 /\ HasErrorField(resp[i].body)
    /\ (pollerPc = "sleep" /\ FieldsInvalid(net[Poller].res)) =>
            /\ Len(pollerLines) = 1
            /\ pollerLines[1].tag = "[ERROR]"

(***************************************************************************)
(* C4.  The poller never stops: whatever the upstream answers, every       *)
(* iteration logs exactly one outcome line ([CONSUME] or an error line)    *)
(* and is followed by another iteration; nothing ends the loop.            *)
(* Checked with an upstream that settles every request (ResponsiveSpec).   *)
(***************************************************************************)
C4_PollerNeverStops ==
    /\ [](pollerPc = "sleep" =>
            /\ Len(pollerLines) = 1
            /\ pollerLines[1].tag \in {"[CONSUME]", "[ERROR]"})
    /\ [](pollerPc = "fetching" => pollerLines = <<>>)
    /\ [][(pollerPc \in {"top", "fetching", "sleep"}) =>
            (pollerPc' \in {"top", "fetching", "sleep"})]_vars
    /\ (mainPc = "serving" /\ pollerPc = "fetching") ~> (pollerPc = "sleep")
    /\ (mainPc = "serving" /\ pollerPc = "sleep") ~> (pollerPc = "fetching")

C4_Witness ==
    /\ mainPc = "serving" /\ pollerPc = "sleep"
    /\ pollerLines = <<TextLine("stderr", "[ERROR]", "Consumption error")>>

(***************************************************************************)
(* C5.  The two control flows are independent: wherever the poller is      *)
(* (also inside a fetch that never returns, or asleep), a request can      *)
(* start, a /consume can go on with its own fetch and /health can be       *)
(* answered; and whatever the requests in flight, the poller's next step   *)
(* can be taken.                                                           *)
(***************************************************************************)
C5_Independent ==
    /\ mainPc = "serving" =>
        \A i \in Slots :
            /\ reqPc[i] = "idle" => ENABLED StartConsume(i) /\ ENABLED Health(i)
            /\ (reqPc[i] = "fetching" /\ net[i].st = "pending") =>
                    ENABLED UpstreamAnswer(i)
            /\ (reqPc[i] = "fetching" /\ net[i].st = "answered") =>
                    ENABLED FinishConsume(i)
    /\ Running =>
        /\ pollerPc = "startupDelay" => ENABLED PollerStartupDelay
        /\ pollerPc = "top" => ENABLED PollerGet
        /\ pollerPc = "sleep" => ENABLED PollerSleep
        /\ (pollerPc = "fetching" /\ net[Poller].st = "pending") =>
                ENABLED UpstreamAnswer(Poller)
        /\ (pollerPc = "fetching" /\ net[Poller].st = "answered") =>
                ENABLED PollerLog

C5_Witness ==
    /\ pollerPc = "fetching" /\ net[Poller].st = "pending"
    /\ \E i \in Slots : ConsumeDone(i) /\ resp[i].status = 200
    /\ \E j \in Slots : HealthDone(j)

(***************************************************************************)
(* C6.  No cross-talk: under any interleaving of requests and poller       *)
(* iterations, each /consume response carries the result of the one        *)
(* upstream fetch this request issued: that answer's body, or the failure  *)
(* response when that fetch failed.                                        *)
(***************************************************************************)
C6_NoCrossTalk ==
    \A i \in Slots :
        ConsumeDone(i) =>
            IF net[i].res.got /\ net[i].res.status = 200
            THEN resp[i].body = net[i].res.body
            ELSE /\ resp[i].status = 500
                 /\ resp[i].body = ErrorBody("Failed to call Processor service")

C6_Witness ==
    \E i, j \in Slots :
        /\ i # j /\ ConsumeDone(i) /\ ConsumeDone(j)
        /\ net[i].res # net[j].res
        /\ resp[i].status = 200 /\ resp[j].status = 200
        /\ net[Poller].st = "answered"
        /\ net[Poller].res \notin {net[i].res, net[j].res}

(***************************************************************************)
(* C7.  GET /health is answered in every state of a serving consumer, with *)
(* status 200 and the JSON object {"status": "healthy", "service":         *)
(* "consumer"}, and issues no upstream fetch.                              *)
(***************************************************************************)
C7_HealthAlways200 ==
    /\ mainPc = "serving" =>
        \A i \in Slots : reqPc[i] = "idle" => ENABLED Health(i)
    /\ \A i \in Slots :
        HealthDone(i) =>
            /\ resp[i].status = 200
            /\ Parse(resp[i].body) =
                 [ok |-> TRUE,
                  val |-> JObj(<<Member("service", JStr("consumer")),
                                 Member("status", JStr("healthy"))>>)]
            /\ net[i].st = "none"

C7_Witness ==
    \E i, j \in Slots :
        /\ HealthDone(i) /\ resp[i].status = 200
        /\ net[Poller].st = "pending"
        /\ reqPc[j] = "fetching" /\ net[j].st = "pending"

(***************************************************************************)
(* C8.  Every upstream fetch terminates: each /consume request is          *)
(* eventually answered and each poller iteration eventually reaches its    *)
(* sleep, also when the upstream never answers.                            *)
(* Stated over FairSpec: the program is scheduled, the upstream is free.   *)
(***************************************************************************)
C8_EveryFetchTerminates ==
    /\ \A i \in Slots : (reqPc[i] = "fetching") ~> (reqPc[i] = "done")
    /\ (mainPc = "serving" /\ pollerPc = "fetching") ~> (pollerPc = "sleep")

(***************************************************************************)
(* C9.  End to end: every status-200 answer of /process has processed =    *)
(* 2 * original, original being the value the producer returned for that   *)
(* request, in 1..100 (processed even, in 2..200); /consume and the        *)
(* [CONSUME] line report that pair.  Stated over ChainSpec.                *)
(***************************************************************************)
ProducerValue(up) == Index(Parse(up.body).val, "value").val

Answered200(f) ==
    net[f].st = "answered" /\ net[f].res.got /\ net[f].res.status = 200

C9_EndToEndDoubling ==
    /\ \A f \in Fetchers :
        Answered200(f) =>
            /\ net[f].up.got /\ net[f].up.status = 200
            /\ LET v == ProducerValue(net[f].up)
                   d == Parse(net[f].res.body).val
               IN  /\ v.t = "int" /\ v.n \in 1..100
                   /\ Index(d, "original").val = v
                   /\ Index(d, "processed").val = JInt(2 * v.n)
                   /\ 2 * v.n \in 2..200 /\ (2 * v.n) % 2 = 0
    /\ \A i \in Slots :
        (ConsumeDone(i) /\ Answered200(i)) =>
            LET v == ProducerValue(net[i].up)
            IN  /\ resp[i].status = 200
                /\ Parse(resp[i].body).val =
                     JObj(<<Member("original", v), Member("processed", JInt(2 * v.n))>>)
    /\ (pollerPc = "sleep" /\ Answered200(Poller)) =>
            LET v == ProducerValue(net[Poller].up)
            IN  pollerLines = <<ValueLine("stdout", "[CONSUME]", v, JInt(2 * v.n))>>

C9_Witness ==
    /\ \E i \in Slots :
        /\ ConsumeDone(i) /\ Answered200(i)
        /\ resp[i].body = ResultBody(100, 200)
    /\ pollerPc = "sleep"
    /\ pollerLines = <<ValueLine("stdout", "[CONSUME]", JInt(1), JInt(2))>>

(***************************************************************************)
(* C10.  Fatality policy: a non-numeric PORT or POLL_INTERVAL_SECONDS      *)
(* aborts startup before the poller thread is started and before the port  *)
(* is bound, so that no fetch and no request ever happens in that run; and *)
(* once the consumer serves, nothing the upstream does ends the process.   *)
(***************************************************************************)
\* txt is an integer: an optional sign, then digits and nothing else
IsIntegerText(txt) ==
    LET b == IF Len(txt) >= 1 /\ txt[1] \in {"-", "+"} THEN 2 ELSE 1
    IN  b <= Len(txt) /\ \A k \in b..Len(txt) : IsDigit(txt[k])

NonNumeric(v) == v.set /\ ~IsIntegerText(v.val)

C10_FatalityPolicy ==
    /\ []((NonNumeric(env.PORT) \/ NonNumeric(env.POLL_INTERVAL_SECONDS)) =>
            /\ mainPc \in {"start", "aborted"}
            /\ pollerPc = "none"
            /\ \A f \in Fetchers : net[f].st = "none"
            /\ \A i \in Slots : reqPc[i] = "idle")
    /\ [][mainPc = "serving" => mainPc' = "serving"]_vars

(***************************************************************************)
(* C11: no retries and fixed spacing.  A poller iteration that has issued  *)
(* its fetch, and a /consume invocation that has issued its fetch or has   *)
(* answered, has issued exactly one GET /process, whatever the outcome; a  *)
(* /health invocation issues none.  When the poller is about to fetch, it  *)
(* has slept exactly once since its previous fetch: the one-second startup *)
(* delay before the first fetch, one sleep of the configured poll interval *)
(* before every later one, after a success, a failure or an exception.     *)
(***************************************************************************)
C11_NoRetriesFixedSpacing ==
    /\ pollerPc \in {"fetching", "sleep"} => gets[Poller] = 1
    /\ pollerPc = "top" =>
          /\ gets[Poller] = 0
          /\ pollerSleeps = IF net[Poller].st = "none"
                            THEN <<StartupDelay>>
                            ELSE <<IntervalSleep(config.pollIntervalSeconds)>>
    /\ \A i \in Slots :
          /\ reqPc[i] = "fetching" \/ ConsumeDone(i) => gets[i] = 1
          /\ HealthDone(i) => gets[i] = 0

\* the poller is about to fetch again after a fetch that got no response,
\* having slept the configured two seconds, and a /consume whose fetch
\* failed has answered
C11_Witness ==
    /\ pollerPc = "top"
    /\ net[Poller].st = "answered" /\ ~net[Poller].res.got
    /\ pollerSleeps = <<IntervalSleep(2)>>
    /\ \E i \in Slots : ConsumeDone(i) /\ ~net[i].res.got /\ gets[i] = 1

(***************************************************************************)
(* C12: whenever startup succeeds the configuration is valid.  Once        *)
(* loadConfig has returned, the listening port is in 1..65535 and the poll *)
(* interval is at least one second, for every environment the process is   *)
(* started in, and every sleep the poller takes lasts at least one second. *)
(***************************************************************************)
C12_StartupConfigValid ==
    /\ mainPc \in {"configured", "spawned", "serving", "exited"} =>
          /\ config.port \in 1..65535
          /\ config.pollIntervalSeconds >= 1
    /\ \A k \in 1..Len(pollerSleeps) : pollerSleeps[k].secs >= 1

\* the text http://producer:8080
FixedProducerUrl ==
    <<"h", "t", "t", "p", ":", "/", "/", "p", "r", "o", "d", "u", "c", "e", "r",
      ":", "8", "0", "8", "0">>

\* the producer URL the processor's environment configures
ConfiguredProducerUrl(e) ==
    <<"h", "t", "t", "p", ":", "/", "/">>
    \o (IF e.PRODUCER_HOST.set THEN e.PRODUCER_HOST.val ELSE DefaultProducerHost)
    \o <<":">>
    \o (IF e.PRODUCER_PORT.set THEN e.PRODUCER_PORT.val ELSE DefaultProducerPort)

\* the processor served fetcher f's request
ProcessorServed(f) == net[f].st = "answered" /\ net[f].upUrl # <<>>

(***************************************************************************)
(* C13: the processor always fetches from http://producer:8080.  In every  *)
(* run, whatever PRODUCER_HOST and PRODUCER_PORT are, each request the     *)
(* /process handler sends upstream goes to http://producer:8080, and its   *)
(* response is the one the handler computes from the producer's result     *)
(* alone; two environments that differ only in PRODUCER_HOST and           *)
(* PRODUCER_PORT give the same request target.  The configured producer    *)
(* URL appears in the startup log line.  Stated over ChainSpec.            *)
(***************************************************************************)
C13_FixedProducerTarget ==
    /\ \A f \in Fetchers :
          ProcessorServed(f) =>
              /\ net[f].upUrl = FixedProducerUrl
              /\ LET a == ServerFinish(ProcessHandler(net[f].up))
                 IN  net[f].res = Resp(a.status, a.body)
    /\ \A e1, e2 \in ProcessorEnvs :
          e1.PORT = e2.PORT =>
              ProcessorTarget(processorMain(e1)) = ProcessorTarget(processorMain(e2))
    /\ processor.pc \in {"serving", "exited"} =>
          /\ Len(processor.log) = 2
          /\ processor.log[2].url = ConfiguredProducerUrl(processor.env)

\* a processor configured with another producer host and port has answered
\* 200 after asking http://producer:8080, and logged the configured URL
C13_Witness ==
    /\ processor.env.PRODUCER_HOST.set /\ processor.env.PRODUCER_PORT.set
    /\ processor.pc = "serving"
    /\ processor.log[2].url # FixedProducerUrl
    /\ \E f \in Fetchers :
          /\ ProcessorServed(f)
          /\ net[f].res.status = 200
          /\ net[f].upUrl = FixedProducerUrl

\* the environment no longer yields the configuration loaded at startup
EnvDiffers ==
    /\ loadConfig(env).cfg.processorUrl # config.processorUrl
    /\ loadConfig(env).cfg.pollIntervalSeconds # config.pollIntervalSeconds

(***************************************************************************)
(* C14: the configuration is immutable and shared consistently.  The       *)
(* Config is the value loadConfig computed from the environment at         *)
(* startup, its URL being "http://" + host + ":" + port, and no later step *)
(* of main, the poller, a handler or the environment changes it.  In every *)
(* reachable state every fetch of the poller and of a /consume invocation  *)
(* targets that URL, so both target the same one, and every interval sleep *)
(* of the poller lasts the configured poll interval.  Stated over          *)
(* ConfigSpec.                                                             *)
(***************************************************************************)
C14_ConfigImmutableShared ==
    /\ [](/\ mainPc \in {"configured", "spawned", "serving", "exited"} =>
               config.processorUrl =
                   <<"h", "t", "t", "p", ":", "/", "/">> \o config.processorHost
                   \o <<":">> \o config.processorPort
          /\ \A f \in Fetchers :
               net[f].st # "none" => net[f].url = config.processorUrl
          /\ \A k \in 1..Len(pollerSleeps) :
               pollerSleeps[k].kind = "interval" =>
                   pollerSleeps[k].secs = config.pollIntervalSeconds)
    /\ [][IF mainPc = "start"
          THEN mainPc' = "configured" => config' = loadConfig(env).cfg
          ELSE config' = config]_vars

\* after the environment changed, the poller has slept the interval loaded
\* at startup and fetches from the URL loaded at startup, as does a /consume
\* invocation in flight
C14_Witness ==
    /\ EnvDiffers
    /\ pollerPc = "top" /\ pollerSleeps = <<IntervalSleep(2)>>
    /\ net[Poller].st = "answered" /\ net[Poller].url = config.processorUrl
    /\ \E i \in ConfigSlots :
          reqPc[i] = "fetching" /\ net[i].url = net[Poller].url
    /\ config.pollIntervalSeconds = 2
    /\ config.processorHost = <<"p">>

\* the JSON object {"error": msg}
ErrorObject(msg) == JObj(<<Member("error", JStr(msg))>>)

\* the processor served fetcher f's request and its own fetch from the
\* producer got no response or a status other than 200
ProducerFailed(f) ==
    ProcessorServed(f) /\ (~net[f].up.got \/ net[f].up.status # 200)

\* fetcher f's fetch from the processor got no response or a status other
\* than 200
ProcessorFailed(f) ==
    net[f].st = "answered" /\ (~net[f].res.got \/ net[f].res.status # 200)

(***************************************************************************)
(* C15: failure propagates along the chain.  When the producer is          *)
(* unreachable or answers non-200, /process responds 500 with              *)
(* {"error": "Failed to call Producer service"}; a /consume served from    *)
(* that response responds 500 with {"error": "Failed to call Processor     *)
(* service"} and nothing of the processor's text, and a poller iteration   *)
(* that got it logs the one line [ERROR] Failed to call Processor service. *)
(* No stage answers 200 when its downstream stage failed.  Stated over     *)
(* ChainSpec.                                                              *)
(***************************************************************************)
C15_FailurePropagates ==
    /\ \A f \in Fetchers :
          ProducerFailed(f) =>
              /\ net[f].res.got /\ net[f].res.status = 500
              /\ Parse(net[f].res.body).ok
              /\ Parse(net[f].res.body).val = ErrorObject("Failed to call Producer service")
    /\ \A i \in Slots :
          ConsumeDone(i) /\ ProcessorFailed(i) =>
              /\ resp[i].status = 500
              /\ Parse(resp[i].body).ok
              /\ Parse(resp[i].body).val = ErrorObject("Failed to call Processor service")
    /\ pollerPc = "sleep" /\ ProcessorFailed(Poller) =>
          pollerLines = <<TextLine("stderr", "[ERROR]", "Failed to call Processor service")>>

\* the producer answered 503 to the processor, whose 500 reached a /consume
\* that has answered, and the producer was unreachable for the processor
\* when the poller asked, which has logged
C15_Witness ==
    /\ \E i \in Slots :
          /\ ConsumeDone(i) /\ ProducerFailed(i)
          /\ net[i].up.got /\ net[i].up.status = 503
          /\ resp[i].status = 500
    /\ pollerPc = "sleep" /\ ProducerFailed(Poller) /\ ~net[Poller].up.got
    /\ Len(pollerLines) = 1

====
